---------------------------- MODULE Spec2Model ----------------------------
(***************************************************************************)
(* A model of nwjs_automator.py: NWJSAutomator.process_game and the steps  *)
(* it calls, as a state machine over an abstract file system.              *)
(*                                                                         *)
(* The file system is abstracted to the places the code touches:           *)
(*   game     the children of the target directory (self.game_path)        *)
(*   hold     the holding area  <parent>/temp_<name>_files                 *)
(*   backup   the backup        <parent>/<name>_backup                     *)
(*   scratch  the scratch dir   <cwd>/temp_nwjs                            *)
(* Library calls that can raise (copy, unlink, rmtree, chmod, download)    *)
(* take their outcome from a bounded number of injected faults.            *)
(***************************************************************************)
EXTENDS Integers, Sequences, FiniteSets, TLC

VARIABLES
    cfg,        \* the arguments of the run and the environment (never changes)
    pc,         \* position in process_game / main
    game,       \* children of the target directory: name -> Node
    game0,      \* history: the children of the target when the run started
    hold,       \* the holding area
    backup,     \* the backup directory
    scratch,    \* the extraction scratch directory
    nwjsDir,    \* local nwjs_dir of process_game: "none", "supplied", or a child
                \* of the scratch directory: "scratch" the one unpacked in this
                \* run, "stale" one that was there before
    tempDir,    \* local temp_dir of process_game was assigned (save returned)
    gameExe,    \* local game_exe of process_game: a target child name, or "None"
    result,     \* the value returned by process_game
    exitCode,   \* exit status of main: -1 while running
    started,    \* history: the steps started so far, in order
    faults,     \* history: the library calls that have raised so far
    writes,     \* history: number of times the manifest was opened for writing
    calls,      \* history: number of validate_game_directory calls
    payload,    \* the children of the runtime directory nwjs_dir names
    removed,    \* removed_count as clean_game_directory logs it: -1 before it ran
    url,        \* the values get_nwjs_download_url has returned, in call order
                \* (followed in SpecUrl only)
    tags,       \* the script_tags lists create_basic_index_html has built, in
                \* call order (followed in SpecIndex only)
    unpacked    \* history: the top-level entries extract_nwjs unpacked from the
                \* archive into the scratch directory, {} before it ran

vars == <<cfg, pc, game, game0, hold, backup, scratch, nwjsDir, tempDir,
          gameExe, result, exitCode, started, faults, writes, calls, payload,
          removed, url, tags, unpacked>>

---------------------------------------------------------------------------
(* Bounds of the model *)

\* library calls that may raise in one run
MaxFaults == 1
\* validate_game_directory calls in the validator-only specification
MaxCalls == 3
\* get_nwjs_download_url calls in the specification of the download URL
MaxUrlCalls == 2

---------------------------------------------------------------------------
(* Names, strings and file contents *)

\* directory names are strings over a small alphabet: an upper-case letter,
\* a lower-case letter, a space, a hyphen and a dot
Lower(c) ==
    CASE c = "G" -> "g" [] c = "N" -> "n" [] c = "W" -> "w" [] c = "J" -> "j"
      [] c = "S" -> "s" [] OTHER -> c

\* str.replace(' ', '-').lower() of line 123
DeriveName(s) == [i \in 1..Len(s) |-> Lower(IF s[i] = " " THEN "-" ELSE s[i])]

\* a manifest (package.json) as json.load sees it
\*   kind   "obj" a JSON object, "nonobj" another JSON value, "bad" not JSON
\*   has    the object has a 'name' key
\*   name   its value ("" is falsy)
\*   other  the other fields: "app" / "rt" plain ones, "surrogate" fields holding
\*          a lone surrogate escape, which utf-8 cannot encode on the way back
\*   fmt    the formatting of the file: "orig", or "indent2" once json.dump wrote
\*          it, or "cut" when a write stopped half way
Obj(has, name, other) ==
    [kind |-> "obj", has |-> has, name |-> name, other |-> other, fmt |-> "orig"]
NonObj == [kind |-> "nonobj", has |-> FALSE, name |-> <<>>, other |-> "-", fmt |-> "orig"]
BadJson == [kind |-> "bad", has |-> FALSE, name |-> <<>>, other |-> "-", fmt |-> "orig"]
CutJson == [kind |-> "bad", has |-> FALSE, name |-> <<>>, other |-> "-", fmt |-> "cut"]

\* a child of a directory: k is "none" (absent), "file" or "dir"; m the manifest
\* a JSON file holds; o what another file holds; d the entries of a directory
None == [k |-> "none"]
File(o) == [k |-> "file", o |-> o]
MFile(m) == [k |-> "file", m |-> m]
Dir(d) == [k |-> "dir", d |-> d]
Exists(n) == n.k # "none"
\* what json.load makes of a file: a file that is not JSON does not parse
ManifestOf(n) == IF "m" \in DOMAIN n THEN n.m ELSE BadJson
Entries(n) == IF n.k = "dir" THEN n.d ELSE {}
Holds(n) == IF "o" \in DOMAIN n THEN n.o ELSE "-"

\* self.keep_files
keep_files == {"package.json", "www", "index.html"}
\* the entries of self.cleanup_files the model carries, in the order of the list
cleanup_order == <<"chromedriver", "debug.log">>
cleanup_files == {cleanup_order[i] : i \in 1..Len(cleanup_order)}
\* every child name of the target directory the model follows
TargetNames ==
    keep_files \cup cleanup_files \cup
    {"nw", "nwjs", "nw.exe", "nwjs.exe", "Game", "Game.exe", "Game.lnk",
     "locales", "old.dll"}

EmptyTree == [n \in TargetNames |-> None]
Tree(f) == [n \in TargetNames |-> IF n \in DOMAIN f THEN f[n] ELSE None]
Children(t) == {n \in TargetNames : Exists(t[n])}


---------------------------------------------------------------------------
(* Validator *)

Ok == "ok"
ErrNotFound == "Game directory not found"
ErrNoManifest == "package.json not found. This may not be an RPG Maker MV game."
ErrNoAssets == "www folder not found. This may not be an RPG Maker MV game."
ErrBadJson == "Invalid JSON in package.json"
ErrUnreadable == "Could not read package.json"
ErrType == "TypeError: object does not support item assignment"
ErrEncode == "UnicodeEncodeError: surrogates not allowed"
ErrIO == "OSError"

\* the error kinds of the design: what each message of the validator stands for
ErrKind(e) ==
    CASE e = ErrNotFound -> "NotFound"
      [] e \in {ErrNoManifest, ErrNoAssets} -> "InvalidTarget"
      [] e \in {ErrBadJson, ErrUnreadable} -> "MalformedManifest"
      [] OTHER -> "Other"

\* the test of line 122: 'name' not in package_data or not package_data['name']
NeedsName(m) == ~m.has \/ m.name = <<>>

\* lines 106-136. node is the package.json child, dirName is self.game_path.name,
\* ioFail says that opening the file for writing raises. The result is the
\* error raised (Ok when none), the child afterwards and the number of times
\* the file was opened for writing.
validate_and_fix_package_json(node, dirName, ioFail) ==
    LET m == ManifestOf(node) IN
    IF node.k = "dir" THEN [err |-> ErrUnreadable, node |-> node, wrote |-> 0]
    ELSE IF m.kind = "bad" THEN [err |-> ErrBadJson, node |-> node, wrote |-> 0]
    ELSE IF m.kind # "obj" THEN [err |-> ErrType, node |-> node, wrote |-> 0]
    ELSE IF ~NeedsName(m) THEN [err |-> Ok, node |-> node, wrote |-> 0]
    ELSE IF ioFail THEN [err |-> ErrIO, node |-> node, wrote |-> 0]
    ELSE IF m.other = "surrogate"
         \* open(.., 'w') has truncated the file; json.dump stops at the string
         THEN [err |-> ErrEncode, node |-> MFile(CutJson), wrote |-> 1]
    ELSE [err |-> Ok,
          node |-> MFile([m EXCEPT !.has = TRUE, !.name = DeriveName(dirName),
                                   !.fmt = "indent2"]),
          wrote |-> 1]

\* mutant of validate_game_directory: www is looked for before package.json
validate_game_directory_swapped(c, g, ioFail) ==
    IF ~c.targetExists THEN [err |-> ErrNotFound, game |-> g, wrote |-> 0]
    ELSE IF ~Exists(g["www"]) THEN [err |-> ErrNoAssets, game |-> g, wrote |-> 0]
    ELSE IF ~Exists(g["package.json"]) THEN [err |-> ErrNoManifest, game |-> g, wrote |-> 0]
    ELSE LET r == validate_and_fix_package_json(g["package.json"], c.path.name, ioFail)
         IN  [err |-> r.err, game |-> [g EXCEPT !["package.json"] = r.node],
              wrote |-> r.wrote]

\* lines 81-104: the checks in order, then validate_and_fix_package_json
validate_game_directory(c, g, ioFail) ==
    IF ~c.targetExists THEN [err |-> ErrNotFound, game |-> g, wrote |-> 0]
    ELSE IF ~Exists(g["package.json"]) THEN [err |-> ErrNoManifest, game |-> g, wrote |-> 0]
    ELSE IF ~Exists(g["www"]) THEN [err |-> ErrNoAssets, game |-> g, wrote |-> 0]
    ELSE LET r == validate_and_fix_package_json(g["package.json"], c.path.name, ioFail)
         IN  [err |-> r.err, game |-> [g EXCEPT !["package.json"] = r.node],
              wrote |-> r.wrote]

---------------------------------------------------------------------------
(* The run: arguments, environment and the initial state *)

Platforms == {"win32", "darwin", "linux"}

\* self.game_path: its last component (Path.name) and whether the siblings the
\* code derives from it (holding area, backup) and the working directory lie
\* inside the target:  "G g" is an ordinary directory,  "." has an empty name
\* and is its own parent
NamedPath == [name |-> <<"G", " ", "g">>, inside |-> FALSE]
DotPath == [name |-> <<>>, inside |-> TRUE]
Paths == {NamedPath, DotPath}

\* --executable-name, after main has stripped a trailing .exe
ExeNames == {"Game", "nw", "package.json", "www", "debug.log"}

\* possible_executables of rename_executable, lines 464-472
possible_executables(platform) ==
    CASE platform = "win32" -> <<"nw.exe", "nwjs.exe">>
      [] platform = "darwin" -> <<"nwjs", "nw">>
      [] OTHER -> <<"nw", "nwjs">>

\* lines 466-472: game_exe_name, the child the executable is renamed to
WithExe(n) == CASE n = "Game" -> "Game.exe" [] n = "nw" -> "nw.exe"
game_exe_name(c) == IF c.platform = "win32" THEN WithExe(c.exeName) ELSE c.exeName

\* the manifests a target may hold when a run starts
Manifests ==
    {Obj(FALSE, <<>>, "app"), Obj(TRUE, <<>>, "app"), Obj(TRUE, <<"n">>, "app"),
     Obj(FALSE, <<>>, "surrogate"), NonObj, BadJson}

\* the targets a run may start on: the application's manifest, assets and
\* entry-point file, each present or not, beside a file of the old runtime
TargetOf(m, w, i) ==
    Tree([n \in {"package.json", "www", "index.html", "old.dll"} |->
            CASE n = "package.json" -> m
              [] n = "www" -> w
              [] n = "index.html" -> i
              [] OTHER -> File("old")])
Targets ==
    {TargetOf(t[1], t[2], t[3]) : t \in
        ({None} \cup {MFile(m) : m \in Manifests})
        \X {None, Dir({"data"}), Dir({"data", "index.html"})}
        \X {None, File("app")}}

\* the runtime directories a run may install, for the platform's executable
\* names e1 (first candidate) and e2 (second candidate)
PayloadsOf(e1, e2) ==
    { \* an ordinary runtime: the executable, a cleanup-set file, locales
      Tree([n \in {e1, "chromedriver", "debug.log", "locales"} |->
              CASE n = e1 -> File("bin1")
                [] n \in {"chromedriver", "debug.log"} -> File("rt")
                [] OTHER -> Dir({"en-US.pak", "fr.pak", "de.pak"})]),
      \* both candidate names present
      Tree([n \in {e1, e2} |-> IF n = e1 THEN File("bin1") ELSE File("bin2")]),
      \* only the second candidate, and children named like the preserve-set
      Tree([n \in {e2} \cup keep_files |->
              CASE n = e2 -> File("bin2")
                [] n = "package.json" -> MFile(Obj(FALSE, <<>>, "rt"))
                [] n = "www" -> Dir({"rt"})
                [] OTHER -> File("rt")]),
      \* no executable at all
      Tree([n \in {"debug.log"} |-> File("rt")]) }
Payloads(platform) ==
    PayloadsOf(possible_executables(platform)[1], possible_executables(platform)[2])

Configs ==
    {c \in [platform : Platforms, exeName : ExeNames, path : Paths,
            targetExists : BOOLEAN, createBackup : BOOLEAN,
            nwjs : {"none", "exists", "missing"}] :
        \* the model follows the names Game.exe and nw.exe on win32
        c.platform = "win32" => c.exeName \in {"Game", "nw"}}

NoHold == [exists |-> FALSE, t |-> [n \in keep_files |-> None]]
NoBackup == [exists |-> FALSE, t |-> EmptyTree]
\* the scratch directory: it exists, it holds a downloaded archive, the runtime
\* directory unpacked in this run (dir), one left by an earlier run (stale)
NoScratch == [exists |-> FALSE, archive |-> FALSE, dir |-> FALSE, stale |-> FALSE]
NoResult == [success |-> FALSE, exe |-> "None", error |-> "", returned |-> FALSE]

Init ==
    /\ cfg \in Configs
    /\ game \in Targets
    /\ cfg.targetExists \/ game = TargetOf(None, None, None)
    /\ game0 = game
    /\ pc = "start"
    /\ hold = NoHold
    /\ backup = NoBackup
    /\ scratch = NoScratch
    /\ nwjsDir = "none"
    /\ tempDir = FALSE
    /\ gameExe = "None"
    /\ result = NoResult
    /\ exitCode = -1
    /\ started = <<>>
    /\ faults = {}
    /\ writes = 0
    /\ calls = 0
    /\ payload = EmptyTree
    /\ removed = -1
    /\ url = <<>>
    /\ tags = <<>>
    /\ unpacked = {}

---------------------------------------------------------------------------
(* process_game, one action per step *)

\* whether one more library call may raise
MayFail == IF Cardinality(faults) < MaxFaults THEN {FALSE, TRUE} ELSE {FALSE}
\* the faults so far and, when b, the one of this step
With(b, step, call) == IF b THEN faults \cup {<<step, call>>} ELSE faults

\* lines 647-652: the except clause of process_game
Failed(e) == [success |-> FALSE, exe |-> "None", error |-> e, returned |-> TRUE]

\* lines 598-600. Step 0: validate_game_directory
Validate ==
    /\ pc = "start"
    /\ \E io \in MayFail :
         LET r == validate_game_directory(cfg, game, io) IN
         /\ io => r.err = ErrIO
         /\ game' = r.game
         /\ writes' = writes + r.wrote
         /\ faults' = With(io, "validate", "write")
         /\ IF r.err = Ok
            THEN pc' = "validated" /\ result' = result
            ELSE pc' = "returned" /\ result' = Failed(r.err)
    /\ calls' = calls + 1
    /\ started' = Append(started, "validate")
    /\ UNCHANGED <<url, tags, unpacked, removed, cfg, game0, hold, backup, scratch, nwjsDir, tempDir, gameExe,
                   exitCode, payload>>

\* lines 215-226: backup_game. A copytree that raises leaves the directory it
\* had created.
backup_game(b, g, io) ==
    IF b.exists THEN [err |-> Ok, backup |-> b]
    ELSE IF io THEN [err |-> ErrIO, backup |-> [exists |-> TRUE, t |-> EmptyTree]]
    ELSE [err |-> Ok, backup |-> [exists |-> TRUE, t |-> g]]

\* lines 602-604. Step 0.5: backup_game when create_backup
Backup ==
    /\ pc = "validated"
    /\ IF cfg.createBackup
       THEN \E io \in MayFail :
              LET r == backup_game(backup, game, io) IN
              /\ io => r.err = ErrIO
              /\ backup' = r.backup
              /\ faults' = With(io, "backup", "copytree")
              /\ started' = Append(started, "backup")
              /\ IF r.err = Ok
                 THEN pc' = "backedup" /\ result' = result
                 ELSE pc' = "returned" /\ result' = Failed(r.err)
       ELSE /\ pc' = "backedup"
            /\ UNCHANGED <<backup, faults, started, result>>
    /\ UNCHANGED <<url, tags, unpacked, removed, cfg, game, game0, hold, scratch, nwjsDir, tempDir, gameExe,
                   exitCode, writes, calls, payload>>

ErrDownload == "RequestException"
ErrNoRuntimeDir == "Could not find extracted NW.js directory"
ErrCritical == "Failed to backup critical files"
ErrNoExe == "Could not create game executable"

\* str.lower() of a name, and the test  sub in s  of line 209
LowerSeq(s) == [i \in 1..Len(s) |-> Lower(s[i])]
Contains(s, sub) ==
    \E i \in 0..(Len(s) - Len(sub)) : SubSeq(s, i + 1, i + Len(sub)) = sub

\* a child of the scratch directory: its name, as the sequence of its
\* characters, and whether it is a directory
Entry(name, kind) == [name |-> name, kind |-> kind]
\* the archive download_nwjs has written (nwjs-...zip or .tar.gz)
ArchiveFile == Entry(<<"n", "w", "j", "s", ".", "z">>, "file")
\* a runtime directory an earlier run unpacked and left behind
StaleDir == Entry(<<"n", "w", "j", "s", "0">>, "dir")
\* what an archive may unpack to, at top level
Layouts ==
    { \* a runtime directory, named in mixed case, beside a file
      {Entry(<<"x", "N", "W", "j", "s", "1">>, "dir"), Entry(<<"n", "w", "j", "s">>, "file")},
      \* a directory with another name
      {Entry(<<"n", "w", "1">>, "dir")},
      \* files only
      {Entry(<<"n", "w", "j", "s">>, "file")},
      \* nothing
      {} }

\* mutant of extract_nwjs: the name is not lower-cased before the test
extract_nwjs_case_sensitive(suffix, layout, existing) ==
    LET kids == existing \cup (IF suffix \in {".zip", ".gz"} THEN layout ELSE {})
        found == {k \in kids : k.kind = "dir" /\ Contains(k.name, <<"n", "w", "j", "s">>)}
    IN  [err |-> IF found = {} THEN ErrNoRuntimeDir ELSE Ok, found |-> found]

\* lines 196-213: extract_nwjs. suffix is archive_path.suffix, layout what the
\* archive unpacks to, existing the children extract_dir has already. iterdir
\* yields the children in no fixed order: found is the set of the children any
\* of which may be the one returned.
extract_nwjs(suffix, layout, existing) ==
    LET kids == existing \cup (IF suffix \in {".zip", ".gz"} THEN layout ELSE {})
        found == {k \in kids :
                    k.kind = "dir" /\ Contains(LowerSeq(k.name), <<"n", "w", "j", "s">>)}
    IN  [err |-> IF found = {} THEN ErrNoRuntimeDir ELSE Ok, found |-> found]

\* the children of the scratch directory when extract_nwjs is called
ScratchChildren(sc) == {ArchiveFile} \cup (IF sc.stale THEN {StaleDir} ELSE {})
\* Path.suffix of the file name of lines 167-170
ArchiveSuffix(c) == IF c.platform = "win32" THEN ".zip" ELSE ".gz"

\* mutant of setup_nwjs: the test of line 543 is left out
setup_nwjs_always_download(c, sc, dlFails, layout, pick) ==
    LET x == extract_nwjs(ArchiveSuffix(c), layout, ScratchChildren(sc))
        sc1 == [sc EXCEPT !.exists = TRUE, !.archive = TRUE,
                          !.dir = (x.found \ {StaleDir} # {})]
    IN  IF dlFails
        THEN [err |-> ErrDownload, dir |-> "none",
              scratch |-> [sc EXCEPT !.exists = TRUE], unpacked |-> {}]
        ELSE IF x.err # Ok
             THEN [err |-> x.err, dir |-> "none", scratch |-> sc1, unpacked |-> layout]
        ELSE [err |-> Ok, dir |-> IF pick = StaleDir THEN "stale" ELSE "scratch",
              scratch |-> sc1, unpacked |-> layout]

\* lines 541-556: setup_nwjs, with download_nwjs (174-194) and extract_nwjs
\* (196-213). dlFails: the request raises; layout: what the archive unpacks
\* to; pick: the child extract_nwjs returns, one of those it may return. The
\* result is the error, nwjs_dir, the scratch directory afterwards and what
\* was unpacked.
setup_nwjs(c, sc, dlFails, layout, pick) ==
    LET x == extract_nwjs(ArchiveSuffix(c), layout, ScratchChildren(sc))
        sc1 == [sc EXCEPT !.exists = TRUE, !.archive = TRUE,
                          !.dir = (x.found \ {StaleDir} # {})]
    IN  IF c.nwjs = "exists"
        THEN [err |-> Ok, dir |-> "supplied", scratch |-> sc, unpacked |-> {}]
        ELSE IF dlFails
             THEN [err |-> ErrDownload, dir |-> "none",
                   scratch |-> [sc EXCEPT !.exists = TRUE], unpacked |-> {}]
        ELSE IF x.err # Ok
             THEN [err |-> x.err, dir |-> "none", scratch |-> sc1, unpacked |-> layout]
        ELSE [err |-> Ok, dir |-> IF pick = StaleDir THEN "stale" ELSE "scratch",
              scratch |-> sc1, unpacked |-> layout]

\* line 607. Step 1: setup_nwjs
Setup ==
    /\ pc = "backedup"
    /\ \E dlFails \in MayFail : \E layout \in Layouts :
       \E p \in Payloads(cfg.platform) :
         LET x == extract_nwjs(ArchiveSuffix(cfg), layout, ScratchChildren(scratch)) IN
         \E pick \in x.found \cup {ArchiveFile} :
           LET r == setup_nwjs(cfg, scratch, dlFails, layout, pick) IN
           \* one choice of what is not looked at
           /\ (cfg.nwjs = "exists" \/ dlFails) => layout = {}
           /\ cfg.nwjs = "exists" => ~dlFails
           /\ pick = ArchiveFile <=> (r.dir \notin {"scratch", "stale"})
           /\ r.err # Ok => p = CHOOSE q \in Payloads(cfg.platform) : TRUE
           /\ scratch' = r.scratch
           /\ nwjsDir' = r.dir
           /\ unpacked' = r.unpacked
           /\ faults' = With(dlFails, "setup", "download")
           /\ IF r.err = Ok
              THEN pc' = "setup" /\ result' = result /\ payload' = p
              ELSE pc' = "returned" /\ result' = Failed(r.err) /\ payload' = payload
    /\ started' = Append(started, "setup")
    /\ UNCHANGED <<url, tags, removed, cfg, game, game0, hold, backup, tempDir,
                   gameExe, exitCode, writes, calls>>

\* copy2 / copytree(dirs_exist_ok=True) of src onto the child dst of another
\* directory: a directory merges into a directory, a file replaces a file
CopyOnto(src, dst) ==
    IF src.k = "dir" THEN Dir(Entries(dst) \cup src.d) ELSE src
\* the copies that raise: a directory onto a file (FileExistsError)
CopyRaises(src, dst) == src.k = "dir" /\ dst.k = "file"

\* mutant of save_important_files: the check of lines 258-265 is left out
save_important_files_unchecked(g, h, fault) ==
    LET h0 == [h EXCEPT !.exists = TRUE]
        h1 == IF Exists(g["package.json"])
              THEN [h0 EXCEPT !.t["package.json"] = g["package.json"]] ELSE h0
        h2 == IF Exists(g["www"])
              THEN [h1 EXCEPT !.t["www"] = CopyOnto(g["www"], h1.t["www"])] ELSE h1
        h3 == IF Exists(g["index.html"])
              THEN [h2 EXCEPT !.t["index.html"] = g["index.html"]] ELSE h2
    IN  IF fault = "package.json" THEN [err |-> ErrIO, hold |-> h0]
        ELSE IF fault = "www" THEN [err |-> ErrIO, hold |-> h1]
        ELSE IF fault = "index.html" THEN [err |-> ErrIO, hold |-> h2]
        ELSE [err |-> Ok, hold |-> h3]

\* lines 228-268: save_important_files. fault names the copy that raises
\* ("none": no copy does). The result is the error and the holding area.
save_important_files(g, h, fault) ==
    LET h0 == [h EXCEPT !.exists = TRUE]
        pkg == g["package.json"]
        www == g["www"]
        idx == g["index.html"]
        h1 == IF Exists(pkg) THEN [h0 EXCEPT !.t["package.json"] = pkg] ELSE h0
        wwwRaises == Exists(www) /\ (www.k = "file" \/ CopyRaises(www, h1.t["www"]))
        h2 == IF Exists(www)
              THEN [h1 EXCEPT !.t["www"] = CopyOnto(www, h1.t["www"])] ELSE h1
        h3 == IF Exists(idx) THEN [h2 EXCEPT !.t["index.html"] = idx] ELSE h2
        missing == {f \in {"package.json", "www"} : ~Exists(h3.t[f])}
    IN  IF fault = "package.json" THEN [err |-> ErrIO, hold |-> h0]
        ELSE IF fault = "www" \/ wwwRaises THEN [err |-> ErrIO, hold |-> h1]
        ELSE IF fault = "index.html" THEN [err |-> ErrIO, hold |-> h2]
        ELSE IF missing # {} THEN [err |-> ErrCritical, hold |-> h3]
        ELSE [err |-> Ok, hold |-> h3]

\* the copies of a step that may raise: those of the children that exist
FaultChoices(names) ==
    {"none"} \cup (IF TRUE \in MayFail THEN names ELSE {})

\* line 610. Step 3a: save_important_files
Save ==
    /\ pc = "setup"
    /\ \E fault \in FaultChoices(keep_files \cap Children(game)) :
         LET r == save_important_files(game, hold, fault) IN
         /\ hold' = r.hold
         /\ faults' = With(fault # "none", "save", fault)
         /\ IF r.err = Ok
            THEN pc' = "saved" /\ result' = result /\ tempDir' = TRUE
            ELSE pc' = "returned" /\ result' = Failed(r.err) /\ tempDir' = tempDir
    /\ started' = Append(started, "save")
    /\ UNCHANGED <<url, tags, unpacked, removed, cfg, game, game0, backup, scratch, nwjsDir, gameExe, exitCode,
                   writes, calls, payload>>

\* lines 270-287: clean_game_directory. stuck is the set of children whose
\* removal raises; every other child is removed.
clean_game_directory(g, stuck) ==
    [n \in TargetNames |-> IF n \in stuck THEN g[n] ELSE None]

\* mutant of removed_count: every child iterdir yields is counted
removed_count_all(g, stuck, others) == Cardinality(Children(g)) + others

\* lines 274-287: removed_count, incremented after each removal that did not
\* raise. others is the number of children removed beside those of g.
removed_count(g, stuck, others) == Cardinality(Children(g) \ stuck) + others

\* the directories the run keeps beside the target that are there
Beside(h, b, sc) ==
    (IF h.exists THEN {"#hold"} ELSE {}) \cup (IF b.exists THEN {"#backup"} ELSE {})
        \cup (IF sc.exists THEN {"#scratch"} ELSE {})

\* line 613. Step 3b: clean_game_directory. When the target is its own parent
\* (DotPath) the holding area, the backup and the scratch directory are
\* children of the target too, and are removed with the rest.
Wipe ==
    /\ pc = "saved"
    /\ \E u \in FaultChoices(Children(game) \cup
                             (IF cfg.path.inside THEN {"#hold"} ELSE {})) :
         LET others == IF cfg.path.inside
                       THEN Beside(hold, backup, scratch) \ {u} ELSE {} IN
         /\ game' = clean_game_directory(game, {u})
         /\ removed' = removed_count(game, {u}, Cardinality(others))
         /\ faults' = With(u # "none", "wipe", u)
         /\ hold' = IF "#hold" \in others THEN NoHold ELSE hold
    /\ backup' = IF cfg.path.inside THEN NoBackup ELSE backup
    /\ scratch' = IF cfg.path.inside THEN NoScratch ELSE scratch
    /\ pc' = "wiped"
    /\ started' = Append(started, "wipe")
    /\ UNCHANGED <<url, tags, unpacked, cfg, game0, nwjsDir, tempDir, gameExe, result, exitCode,
                   writes, calls, payload>>

\* lines 433-455: copy_nwjs_to_game. src is the runtime directory's children
\* (srcExists: the directory is there), fault the child whose copy or chmod
\* raises, first whether that child is the first one iterdir yields. No
\* except clause follows the try of line 442: what raises leaves the method.
copy_nwjs_to_game(g, src, srcExists, fault, first) ==
    LET raising == {n \in Children(src) : n = fault \/ CopyRaises(src[n], g[n])}
        copied == IF raising # {} /\ first THEN {} ELSE Children(src) \ raising
        g1 == [n \in TargetNames |->
                 IF n \in copied
                 THEN (IF src[n].k = "file" /\ g[n].k = "dir"
                       THEN Dir(Entries(g[n]) \cup {n})   \* copy2 into a directory
                       ELSE CopyOnto(src[n], g[n]))
                 ELSE g[n]]
    IN  IF ~srcExists THEN [err |-> ErrIO, game |-> g]
        ELSE IF raising # {} THEN [err |-> ErrIO, game |-> g1]
        ELSE [err |-> Ok, game |-> g1]

\* whether the directory nwjs_dir names is (still) there
RuntimeExists ==
    \/ nwjsDir = "supplied"
    \/ nwjsDir = "scratch" /\ scratch.dir
    \/ nwjsDir = "stale" /\ scratch.stale

\* mutant of Install: process_game goes on when copy_nwjs_to_game raised
Install_continues ==
    /\ pc = "wiped"
    /\ \E fault \in FaultChoices(Children(payload)) : \E first \in BOOLEAN :
         LET r == copy_nwjs_to_game(game, payload, RuntimeExists, fault, first) IN
         /\ first => (r.err # Ok /\ RuntimeExists)
         /\ game' = r.game
         /\ faults' = With(fault # "none", "install", fault)
    /\ pc' = "installed"
    /\ started' = Append(started, "install")
    /\ UNCHANGED <<url, tags, unpacked, removed, cfg, game0, hold, backup, scratch, nwjsDir,
                   tempDir, gameExe, result, exitCode, writes, calls, payload>>

\* line 616. Step 3b: copy_nwjs_to_game
Install ==
    /\ pc = "wiped"
    /\ \E fault \in FaultChoices(Children(payload)) : \E first \in BOOLEAN :
         LET r == copy_nwjs_to_game(game, payload, RuntimeExists, fault, first) IN
         /\ first => (r.err # Ok /\ RuntimeExists)
         /\ game' = r.game
         /\ faults' = With(fault # "none", "install", fault)
         /\ IF r.err = Ok
            THEN pc' = "installed" /\ result' = result
            ELSE pc' = "returned" /\ result' = Failed(r.err)
    /\ started' = Append(started, "install")
    /\ UNCHANGED <<url, tags, unpacked, removed, cfg, game0, hold, backup, scratch, nwjsDir, tempDir, gameExe,
                   exitCode, writes, calls, payload>>

\* mutant of create_basic_index_html: nothing is written
create_basic_index_html_none(g) == g

\* lines 343-430: create_basic_index_html writes the synthesized document
\* (what it holds is followed in SpecIndex)
create_basic_index_html(g) == [g EXCEPT !["index.html"] = File("synth")]

\* lines 289-341: restore_important_files. fault names the call that raises:
\* a copy ("package.json", "www", "index.html"), the write of the
\* re-validation ("validate") or the removal of the holding area ("rmtree").
\* The result is the error, the target, the holding area and the number of
\* writes of the manifest.
restore_important_files(c, g, h, fault) ==
    LET hp == h.t["package.json"]
        hw == h.t["www"]
        hi == h.t["index.html"]
        \* lines 294-300
        pkgRaises == Exists(hp) /\ (g["package.json"].k = "dir" \/ fault = "package.json")
        g1 == IF Exists(hp) THEN [g EXCEPT !["package.json"] = hp] ELSE g
        \* lines 303-309: rmtree, then copytree
        wwwRaises == Exists(hw) /\ (g1["www"].k = "file" \/ fault = "www")
        g2 == IF Exists(hw) THEN [g1 EXCEPT !["www"] = hw] ELSE g1
        g2cut == [g1 EXCEPT !["www"] = Dir({})]
        \* lines 312-329
        idxRaises == g2["index.html"].k = "dir" \/ fault = "index.html"
        g3 == IF Exists(hi) THEN [g2 EXCEPT !["index.html"] = hi]
              ELSE IF g2["www"].k = "dir" /\ "index.html" \in g2["www"].d
                   THEN [g2 EXCEPT !["index.html"] = File("wwwidx")]
              ELSE create_basic_index_html(g2)
        \* lines 332-334
        v == IF Exists(g3["package.json"])
             THEN validate_and_fix_package_json(g3["package.json"], c.path.name,
                                                fault = "validate")
             ELSE [err |-> Ok, node |-> g3["package.json"], wrote |-> 0]
        g4 == [g3 EXCEPT !["package.json"] = v.node]
        \* lines 337-341
        h1 == IF fault = "rmtree" THEN h ELSE NoHold
    IN  IF pkgRaises
        THEN [err |-> ErrIO, hold |-> h, wrote |-> 0,
              \* unlink of a directory raises; else copy2 raises after the unlink
              game |-> IF g["package.json"].k = "dir" THEN g
                       ELSE [g EXCEPT !["package.json"] = None]]
        ELSE IF wwwRaises
             THEN [err |-> ErrIO, hold |-> h, wrote |-> 0,
                   game |-> IF g1["www"].k = "file" THEN g1 ELSE g2cut]
        ELSE IF idxRaises THEN [err |-> ErrIO, game |-> g2, hold |-> h, wrote |-> 0]
        ELSE IF v.err # Ok
             THEN [err |-> v.err, game |-> g4, hold |-> h, wrote |-> v.wrote]
        ELSE [err |-> Ok, game |-> g4, hold |-> h1, wrote |-> v.wrote]

\* line 619. Step 3c: restore_important_files(temp_dir)
Restore ==
    /\ pc = "installed"
    /\ \E fault \in FaultChoices({"package.json", "www", "index.html",
                                  "validate", "rmtree"}) :
         LET r == restore_important_files(cfg, game, hold, fault) IN
         \* a fault is chosen only where the call it names is made
         /\ fault \in {"package.json", "www", "index.html", "validate"} => r.err = ErrIO
         /\ fault = "rmtree" => (r.err = Ok /\ hold.exists)
         /\ game' = r.game
         /\ hold' = r.hold
         /\ writes' = writes + r.wrote
         /\ faults' = With(fault # "none", "restore", fault)
         /\ IF r.err = Ok
            THEN pc' = "restored" /\ result' = result
            ELSE pc' = "returned" /\ result' = Failed(r.err)
    /\ started' = Append(started, "restore")
    /\ UNCHANGED <<url, tags, unpacked, removed, cfg, game0, backup, scratch, nwjsDir, tempDir, gameExe, exitCode,
                   calls, payload>>

\* lines 474-480: the first candidate that exists in the target, "None" if none
FirstExisting(g, names) ==
    IF \E i \in 1..Len(names) : Exists(g[names[i]])
    THEN names[CHOOSE i \in 1..Len(names) :
                 /\ Exists(g[names[i]])
                 /\ \A j \in 1..(i - 1) : ~Exists(g[names[j]])]
    ELSE "None"

\* lines 457-503: rename_executable. fault names the call that raises: "unlink",
\* "rename" or "chmod". The result is the value returned (a child name, "None"
\* for None) and the target.
rename_executable(c, g, fault) ==
    LET nw_exe == FirstExisting(g, possible_executables(c.platform))
        game_exe == game_exe_name(c)
        \* lines 489-490
        unlinkRaises == Exists(g[game_exe]) /\ (g[game_exe].k = "dir" \/ fault = "unlink")
        g1 == [g EXCEPT ![game_exe] = None]
        \* line 492: the source is gone when it was the destination
        renameRaises == ~Exists(g1[nw_exe]) \/ fault = "rename"
        g2 == [g1 EXCEPT ![game_exe] = g1[nw_exe], ![nw_exe] = None]
        \* lines 495-496
        chmodRaises == c.platform # "win32" /\ fault = "chmod"
    IN  IF nw_exe = "None" THEN [exe |-> "None", game |-> g]
        ELSE IF unlinkRaises THEN [exe |-> nw_exe, game |-> g]
        ELSE IF renameRaises THEN [exe |-> nw_exe, game |-> g1]
        ELSE IF chmodRaises THEN [exe |-> nw_exe, game |-> g2]
        ELSE [exe |-> game_exe, game |-> g2]

\* line 622. Step 3c: rename_executable
Rename ==
    /\ pc = "restored"
    /\ \E fault \in FaultChoices({"unlink", "rename", "chmod"}) :
         LET r == rename_executable(cfg, game, fault)
             none == rename_executable(cfg, game, "none") IN
         \* a fault is chosen only where the call it names is made
         /\ fault # "none" => r # none
         /\ game' = r.game
         /\ gameExe' = r.exe
         /\ faults' = With(fault # "none", "rename", fault)
    /\ pc' = "renamed"
    /\ started' = Append(started, "rename")
    /\ UNCHANGED <<url, tags, unpacked, removed, cfg, game0, hold, backup, scratch, nwjsDir, tempDir, result,
                   exitCode, writes, calls, payload>>

\* the locale files line 528 keeps
kept_locales == {"en-US.pak", "en-US.pak.info"}

\* mutant of cleanup_nwjs_files: the first removal that raises ends the loop
\* over the cleanup-set
cleanup_nwjs_files_stops(g, stuck, localeStuck, done) ==
    LET reached(n) == \A i \in 1..Len(cleanup_order) :
                        cleanup_order[i] \in stuck =>
                          \E j \in 1..i : cleanup_order[j] = n
    IN  [n \in TargetNames |->
            IF n \in cleanup_files /\ n \notin stuck /\ reached(n) THEN None
            ELSE IF n = "locales" /\ g[n].k = "dir"
                 THEN Dir(IF localeStuck = "none" THEN g[n].d \cap kept_locales
                          ELSE g[n].d \ done)
            ELSE g[n]]

\* lines 505-539: cleanup_nwjs_files. stuck is the set of cleanup-set children
\* whose removal raises. The pruning of locales is one try around the loop:
\* localeStuck is the locale file whose removal raises ("none": none does) and
\* done the files the loop had removed before it, iterdir having no fixed
\* order.
cleanup_nwjs_files(g, stuck, localeStuck, done) ==
    [n \in TargetNames |->
        IF n \in cleanup_files /\ n \notin stuck THEN None
        ELSE IF n = "locales" /\ g[n].k = "dir"
             THEN Dir(IF localeStuck = "none" THEN g[n].d \cap kept_locales
                      ELSE g[n].d \ done)
        ELSE g[n]]

\* line 625. Step 3d: cleanup_nwjs_files
Cleanup ==
    /\ pc = "renamed"
    /\ LET pruned == Entries(game["locales"]) \ kept_locales IN
       \E fault \in FaultChoices((cleanup_files \cap Children(game)) \cup pruned) :
       \E done \in SUBSET (pruned \ {fault}) :
         /\ fault \notin pruned => done = {}
         /\ game' = cleanup_nwjs_files(game, {fault},
                                       IF fault \in pruned THEN fault ELSE "none", done)
         /\ faults' = With(fault # "none", "cleanup", fault)
    /\ pc' = "cleaned"
    /\ started' = Append(started, "cleanup")
    /\ UNCHANGED <<url, tags, unpacked, removed, cfg, game0, hold, backup, scratch,
                   nwjsDir, tempDir, gameExe, result, exitCode, writes, calls,
                   payload>>

\* lines 570-593: create_shortcut_windows writes <name>.lnk when win32com is
\* there and the COM calls do not raise
create_shortcut_windows(g, made) ==
    IF made THEN [g EXCEPT !["Game.lnk"] = File("lnk")] ELSE g

\* mutant of cleanup_temp_files: the scratch directory is left in place
cleanup_temp_files_skipped(sc, rmFails) == sc

\* lines 560-568: cleanup_temp_files. A removal that raises is logged.
cleanup_temp_files(sc, rmFails) ==
    IF sc.exists /\ ~rmFails THEN NoScratch ELSE sc

\* lines 627-645: the rest of process_game
Finish ==
    /\ pc = "cleaned"
    /\ IF gameExe = "None"
       THEN /\ result' = Failed(ErrNoExe)
            /\ UNCHANGED <<game, scratch, faults>>
       ELSE /\ \E made \in (IF cfg.platform = "win32" THEN BOOLEAN ELSE {FALSE}) :
                 game' = create_shortcut_windows(game, made)
            /\ \E rmFails \in MayFail :
                 /\ rmFails => scratch.exists
                 /\ scratch' = cleanup_temp_files(scratch, rmFails)
                 /\ faults' = With(rmFails, "finish", "rmtree")
            /\ result' = [success |-> TRUE, exe |-> gameExe, error |-> "",
                          returned |-> TRUE]
    /\ pc' = "returned"
    /\ UNCHANGED <<url, tags, unpacked, removed, cfg, game0, hold, backup, nwjsDir, tempDir, gameExe, exitCode,
                   started, writes, calls, payload>>

\* mutant of MainExit: main does not call sys.exit(1) on a failed result
MainExit_zero ==
    /\ pc = "returned"
    /\ exitCode' = 0
    /\ pc' = "exited"
    /\ UNCHANGED <<url, tags, unpacked, removed, cfg, game, game0, hold, backup, scratch, nwjsDir, tempDir,
                   gameExe, result, started, faults, writes, calls, payload>>

\* lines 803-812: main prints the result and exits
MainExit ==
    /\ pc = "returned"
    /\ exitCode' = IF result.success THEN 0 ELSE 1
    /\ pc' = "exited"
    /\ UNCHANGED <<url, tags, unpacked, removed, cfg, game, game0, hold, backup, scratch, nwjsDir, tempDir,
                   gameExe, result, started, faults, writes, calls, payload>>

Next ==
    \/ Validate \/ Backup \/ Setup \/ Save \/ Wipe \/ Install \/ Restore
    \/ Rename \/ Cleanup \/ Finish \/ MainExit

Spec == Init /\ [][Next]_vars

---------------------------------------------------------------------------
(* Two further specifications *)

\* The tool takes no lock on the target (it assumes exclusive access): another
\* process may remove the manifest or the assets directory after validation
\* and before save_important_files. This is the only way the check of lines
\* 258-265 can fail.
ExternalRemove ==
    /\ pc = "setup"
    /\ \A i \in 1..Len(started) : started[i] # "external"
    /\ \E n \in {"package.json", "www"} :
         /\ Exists(game[n])
         /\ game' = [game EXCEPT ![n] = None]
    /\ started' = Append(started, "external")
    /\ UNCHANGED <<url, tags, unpacked, removed, cfg, pc, game0, hold, backup, scratch, nwjsDir, tempDir,
                   gameExe, result, exitCode, faults, writes, calls, payload>>

NextEnv == Next \/ ExternalRemove

SpecEnv == Init /\ [][NextEnv]_vars

\* lines 81-104 called again on the target, as a caller that validates twice
\* does (restore_important_files re-validates at lines 332-334)
Revalidate ==
    /\ pc = "validated"
    /\ calls < MaxCalls
    /\ LET r == validate_game_directory(cfg, game, FALSE) IN
         /\ game' = r.game
         /\ writes' = writes + r.wrote
         /\ IF r.err = Ok
            THEN pc' = pc /\ result' = result
            ELSE pc' = "returned" /\ result' = Failed(r.err)
    /\ calls' = calls + 1
    /\ UNCHANGED <<url, tags, unpacked, removed, cfg, game0, hold, backup, scratch, nwjsDir, tempDir, gameExe,
                   exitCode, started, faults, payload>>

NextValidator == Validate \/ Revalidate

SpecValidator == Init /\ [][NextValidator]_vars

---------------------------------------------------------------------------
(* A run after a failed run *)

\* process_game removes neither the holding area nor the scratch directory
\* when a step raises (lines 647-652), and the next run finds them: lines 233
\* and 548 are mkdir(exist_ok=True). StaleHold is the holding area a run that
\* failed after save_important_files has left, holding what the target held
\* then; StaleScratch the scratch directory a run that failed after
\* extract_nwjs has left.
StaleHold ==
    [exists |-> TRUE,
     t |-> [n \in keep_files |->
              CASE n = "package.json" -> MFile(Obj(TRUE, <<"n">>, "stale"))
                [] n = "www" -> Dir({"data", "stale"})
                [] OTHER -> File("stale")]]
StaleScratch == [exists |-> TRUE, archive |-> TRUE, dir |-> FALSE, stale |-> TRUE]

\* the runs followed after a failed run: an ordinary target path and
\* executable name
RerunConfigs ==
    {c \in Configs : c.path = NamedPath /\ c.exeName = "Game" /\ c.targetExists}

InitRerun ==
    /\ cfg \in RerunConfigs
    /\ game \in Targets
    /\ game0 = game
    /\ pc = "start"
    /\ hold \in {NoHold, StaleHold}
    /\ backup = NoBackup
    /\ scratch \in {NoScratch, StaleScratch}
    /\ nwjsDir = "none"
    /\ tempDir = FALSE
    /\ gameExe = "None"
    /\ result = NoResult
    /\ exitCode = -1
    /\ started = <<>>
    /\ faults = {}
    /\ writes = 0
    /\ calls = 0
    /\ payload = EmptyTree
    /\ removed = -1
    /\ url = <<>>
    /\ tags = <<>>
    /\ unpacked = {}

SpecRerun == InitRerun /\ [][Next]_vars

---------------------------------------------------------------------------
(* The download URL: get_nwjs_download_url as a function of its inputs *)

\* self.nwjs_url_base, line 46
nwjs_url_base == "https://dl.nwjs.io"

\* lines 140-148: arch_map.get(platform.machine(), 'x64')
arch_map(machine) ==
    CASE machine = "AMD64" -> "x64"
      [] machine = "x86_64" -> "x64"
      [] machine = "arm64" -> "arm64"
      [] machine = "i386" -> "ia32"
      [] machine = "x86" -> "ia32"
      [] OTHER -> "x64"

\* lines 151-157: platform_map.get(sys.platform, 'win')
platform_map(platform) ==
    CASE platform = "win32" -> "win"
      [] platform = "darwin" -> "osx"
      [] platform = "linux" -> "linux"
      [] OTHER -> "win"

\* str.startswith('v') of line 160, a string being the sequence of its characters
StartsWithV(version) == Len(version) > 0 /\ version[1] = "v"

\* mutant of get_nwjs_download_url: the 'v' is put before every version
get_nwjs_download_url_doubled(c) ==
    LET version == <<"v">> \o c.version
        filename == (IF c.use_sdk THEN <<"nwjs-sdk-">> ELSE <<"nwjs-">>)
                    \o version \o <<"-", platform_map(c.platform), "-", arch_map(c.machine)>>
                    \o (IF platform_map(c.platform) = "win" THEN <<".zip">> ELSE <<".tar.gz">>)
    IN  [url |-> <<nwjs_url_base, "/">> \o version \o <<"/">> \o filename,
         filename |-> filename]

\* lines 138-172: get_nwjs_download_url. A string is the sequence of its
\* pieces; the version is the sequence of its characters.
get_nwjs_download_url(c) ==
    LET arch == arch_map(c.machine)
        platform_name == platform_map(c.platform)
        version == IF StartsWithV(c.version) THEN c.version ELSE <<"v">> \o c.version
        stem == (IF c.use_sdk THEN <<"nwjs-sdk-">> ELSE <<"nwjs-">>)
                \o version \o <<"-", platform_name, "-", arch>>
        filename == stem \o (IF platform_name = "win" THEN <<".zip">> ELSE <<".tar.gz">>)
    IN  [url |-> <<nwjs_url_base, "/">> \o version \o <<"/">> \o filename,
         filename |-> filename]

\* the inputs of get_nwjs_download_url: sys.platform, platform.machine(),
\* --nwjs-version and the flavor (use_sdk)
Machines == {"AMD64", "x86_64", "arm64", "i386", "x86", "aarch64", "i686"}
SysPlatforms == Platforms \cup {"freebsd"}
Versions == {<<"v", "0", ".", "4">>, <<"0", ".", "4">>, <<"V", "1">>, <<>>}
UrlConfigs ==
    [platform : SysPlatforms, machine : Machines, version : Versions,
     use_sdk : BOOLEAN]

InitUrl ==
    /\ cfg \in UrlConfigs
    /\ game = EmptyTree
    /\ game0 = game
    /\ pc = "start"
    /\ hold = NoHold
    /\ backup = NoBackup
    /\ scratch = NoScratch
    /\ nwjsDir = "none"
    /\ tempDir = FALSE
    /\ gameExe = "None"
    /\ result = NoResult
    /\ exitCode = -1
    /\ started = <<>>
    /\ faults = {}
    /\ writes = 0
    /\ calls = 0
    /\ payload = EmptyTree
    /\ removed = -1
    /\ url = <<>>
    /\ tags = <<>>
    /\ unpacked = {}

\* line 176: download_nwjs asks for the URL
GetUrl ==
    /\ Len(url) < MaxUrlCalls
    /\ url' = Append(url, get_nwjs_download_url(cfg))
    /\ UNCHANGED <<cfg, pc, game, game0, hold, backup, scratch, nwjsDir, tempDir,
                   gameExe, result, exitCode, started, faults, writes, calls,
                   payload, removed, tags, unpacked>>

NextUrl == GetUrl

SpecUrl == InitUrl /\ [][NextUrl]_vars

---------------------------------------------------------------------------
(* The synthesized document: script_tags of create_basic_index_html *)

\* lines 353-359
libs_order == <<"pixi.js", "pixi-tilemap.js", "pixi-picture.js", "fpsmeter.js", "lz-string.js">>
\* lines 360-367
core_order ==
    <<"rpg_core.js", "rpg_managers.js", "rpg_objects.js", "rpg_scenes.js",
      "rpg_sprites.js", "rpg_windows.js">>
\* line 388
final_order == <<"plugins.js", "main.js">>

\* a script tag, as the directory and the file of its src attribute
Tag(dir, file) == <<dir, file>>
TagsOf(dir, files) == [i \in 1..Len(files) |-> Tag(dir, files[i])]

\* mutant of script_tags: the core files come before the library files
script_tags_core_first(js) ==
    LET InLibs(f) == js.libs.exists /\ f \in js.libs.files
        InJs(f) == f \in js.files
        found == IF js.exists
                 THEN TagsOf("js/", SelectSeq(core_order, InJs))
                      \o TagsOf("js/libs/", SelectSeq(libs_order, InLibs))
                      \o TagsOf("js/", SelectSeq(final_order, InJs))
                 ELSE <<>>
    IN  IF found = <<>> THEN <<Tag("js/", "main.js")>> ELSE found

\* lines 347-399: script_tags. js is the directory www/js: whether it exists,
\* the names in it, and its child libs likewise (Path.exists of each name).
script_tags(js) ==
    LET InLibs(f) == js.libs.exists /\ f \in js.libs.files
        InJs(f) == f \in js.files
        found == IF js.exists
                 THEN TagsOf("js/libs/", SelectSeq(libs_order, InLibs))
                      \o TagsOf("js/", SelectSeq(core_order, InJs))
                      \o TagsOf("js/", SelectSeq(final_order, InJs))
                 ELSE <<>>
    IN  IF found = <<>> THEN <<Tag("js/", "main.js")>> ELSE found

\* the directories www/js the document is synthesized for: absent, or holding
\* any of these names, with a libs directory absent or holding any of those
JsNames == {"rpg_core.js", "rpg_windows.js", "plugins.js", "main.js", "custom.js", "pixi.js"}
LibNames == {"pixi.js", "fpsmeter.js", "lz-string.js", "extra.js"}
NoLibs == [exists |-> FALSE, files |-> {}]
JsDirs ==
    {[exists |-> FALSE, files |-> {}, libs |-> NoLibs]} \cup
    [exists : {TRUE}, files : SUBSET JsNames,
     libs : {NoLibs} \cup [exists : {TRUE}, files : SUBSET LibNames]]

InitIndex ==
    /\ cfg \in JsDirs
    /\ game = EmptyTree
    /\ game0 = game
    /\ pc = "start"
    /\ hold = NoHold
    /\ backup = NoBackup
    /\ scratch = NoScratch
    /\ nwjsDir = "none"
    /\ tempDir = FALSE
    /\ gameExe = "None"
    /\ result = NoResult
    /\ exitCode = -1
    /\ started = <<>>
    /\ faults = {}
    /\ writes = 0
    /\ calls = 0
    /\ payload = EmptyTree
    /\ removed = -1
    /\ url = <<>>
    /\ tags = <<>>
    /\ unpacked = {}

\* line 329: create_basic_index_html is called, once in a run
Synthesize ==
    /\ tags = <<>>
    /\ unpacked = {}
    /\ tags' = <<script_tags(cfg)>>
    /\ UNCHANGED <<cfg, pc, game, game0, hold, backup, scratch, nwjsDir, tempDir,
                   gameExe, result, exitCode, started, faults, writes, calls,
                   payload, removed, url, unpacked>>

NextIndex == Synthesize

SpecIndex == InitIndex /\ [][NextIndex]_vars

---------------------------------------------------------------------------
(* The claims *)

Range(s) == {s[i] : i \in 1..Len(s)}
Started(step) == step \in Range(started)
Returned == result.returned
LastStep == IF started = <<>> THEN "none" ELSE started[Len(started)]

\* the manifest m with at most its name field repaired for directory name d
Repaired(m, d) ==
    {m} \cup (IF m.kind = "obj" /\ NeedsName(m)
              THEN {[m EXCEPT !.has = TRUE, !.name = DeriveName(d), !.fmt = "indent2"]}
              ELSE {})

\* n is as the run found it, but for a repaired name field of the manifest
AsAtStart(n) ==
    IF n = "package.json" /\ Exists(game0[n])
    THEN game[n].k = "file" /\ "m" \in DOMAIN game[n]
         /\ game[n].m \in Repaired(ManifestOf(game0[n]), cfg.path.name)
    ELSE game[n] = game0[n]

\* what the run itself has removed from the target: the children that were
\* there at the start and are gone, but for the one another process removed
RemovedByRun ==
    LET gone == Children(game0) \ Children(game) IN
    IF Started("external") /\ gone \cap {"package.json", "www"} # {}
    THEN gone \ {CHOOSE n \in gone \cap {"package.json", "www"} : TRUE}
    ELSE gone

\* the check of lines 258-265 holds of the holding area
PreserveVerified ==
    hold.exists /\ Exists(hold.t["package.json"]) /\ Exists(hold.t["www"])

\* C1: clean_game_directory runs only after save_important_files has returned
\* in the same run, that is from a state in which the holding area holds both
\* package.json and www; and a run that failed that check has removed no child
\* of the target.
C1_WipeOnlyAfterPreserveVerified ==
    /\ [][(pc = "saved" /\ pc' = "wiped") => (tempDir /\ PreserveVerified)]_vars
    /\ [](Started("wipe") => (tempDir /\ LastStep # "save"))
    /\ []((Returned /\ result.error = ErrCritical)
            => (~Started("wipe") /\ RemovedByRun = {}))

\* C1 witness: the wipe has run, after a save that verified the holding area
C1_Witness ==
    /\ pc = "wiped"
    /\ tempDir
    /\ Children(game0) # {}
    /\ Children(game) = {}

\* C1, the other case: the check failed and the run stopped before the wipe
C1_CheckFailedReached ==
    Returned /\ result.error = ErrCritical /\ ~Started("wipe")

\* the run failed, and the last step it started is one of steps
FailedIn(steps) == Returned /\ ~result.success /\ LastStep \in steps

\* C2: a run that fails in validation, backup, runtime setup or preservation
\* leaves every child the target had at the start in place with its content,
\* but for a repaired name field of the manifest.
C2_EarlyFailureLeavesTarget ==
    FailedIn({"validate", "backup", "setup", "save"})
        => \A n \in Children(game0) : AsAtStart(n)

\* C3: after a run that reports success the www directory is as it was at the
\* start and package.json is the starting manifest, but for a repaired name
\* (stated of the runs in which no library call raises).
C3_SuccessKeepsApplicationFiles ==
    (result.success /\ faults = {})
        => (game["www"] = game0["www"] /\ AsAtStart("package.json"))

\* C4: success is reported only when the target holds a file named with the
\* user-chosen executable name and game_executable is that file; a run whose
\* executable was not found or not renamed reports failure, after cleanup
\* (stated of the runs in which no library call raises).
C4_SuccessMeansRenamedExecutable ==
    /\ (result.success /\ faults = {}) =>
         /\ result.exe = game_exe_name(cfg)
         /\ game[result.exe].k = "file"
         /\ Holds(game[result.exe]) \in {"bin1", "bin2"}
    /\ (Returned /\ result.error = ErrNoExe) => Started("cleanup")

\* the backup step has been taken and did not raise
BackupTaken ==
    cfg.createBackup /\ Started("backup") /\ ~FailedIn({"backup"})

\* C6: with backup enabled, the backup directory is, from the backup step on,
\* a full copy of the target as it was before the run changed anything in it
\* (the validator's rewrite of the manifest included), and is never deleted.
C6_BackupIsTheOriginal ==
    BackupTaken => (backup.exists /\ backup.t = game0)

\* C5: no failure of a step leaves process_game: every run returns, a failed
\* run returns success=False with a non-empty message and main exits with
\* status 1, and a result with success=True carries the executable path.
C5_FailuresAreReported ==
    /\ pc # "exited" => ENABLED Next
    /\ Returned <=> pc \in {"returned", "exited"}
    /\ (Returned /\ ~result.success) => result.error # ""
    /\ result.success => (Returned /\ result.exe # "None")
    /\ pc = "exited" => exitCode = (IF result.success THEN 0 ELSE 1)
    /\ pc # "exited" => exitCode = -1

\* C5 witness: a step after the wipe raised and main has exited with status 1
C5_Witness ==
    /\ pc = "exited"
    /\ exitCode = 1
    /\ LastStep = "restore"
    /\ faults # {}

\* the first check of the validator that does not hold of the target the run
\* started on, as the message it is documented to fail with; Ok when all hold
FirstFailingCheck ==
    IF ~cfg.targetExists THEN ErrNotFound
    ELSE IF ~Exists(game0["package.json"]) THEN ErrNoManifest
    ELSE IF ~Exists(game0["www"]) THEN ErrNoAssets
    ELSE IF ManifestOf(game0["package.json"]).kind = "bad" THEN ErrBadJson
    ELSE Ok

DocumentedKinds == {"NotFound", "InvalidTarget", "MalformedManifest"}

\* C9: validate_game_directory fails at the first check, in the order target
\* exists, package.json exists, www exists, manifest parses, that does not hold,
\* with that check's error, and then leaves the target as it was.
C9_ChecksInOrder ==
    calls >= 1 =>
      /\ FirstFailingCheck # Ok =>
           /\ Returned /\ result.error = FirstFailingCheck
           /\ ErrKind(result.error) \in DocumentedKinds
      /\ (Returned /\ ErrKind(result.error) \in DocumentedKinds) =>
           /\ result.error = FirstFailingCheck
           /\ game = game0
           /\ writes = 0

\* C9 witness: www is missing and the manifest does not parse either; the
\* validator has failed on www
C9_Witness ==
    /\ calls = 1
    /\ Returned
    /\ result.error = ErrNoAssets
    /\ ManifestOf(game0["package.json"]).kind = "bad"

\* C7: on every target with a parseable manifest and a www directory, for every
\* target path, the validator succeeds and leaves a manifest with a non-empty
\* name: the lower-cased, hyphenated directory name when it was missing or
\* empty, and every other field as it was.
C7_ValidatorRepairsName ==
    ( /\ calls >= 1
      /\ faults = {}
      /\ cfg.targetExists
      /\ Exists(game0["package.json"])
      /\ Exists(game0["www"])
      /\ ManifestOf(game0["package.json"]).kind \in {"obj", "nonobj"} )
    => LET m0 == ManifestOf(game0["package.json"])
           m == ManifestOf(game["package.json"])
       IN  /\ ~Returned
           /\ m.kind = "obj" /\ m.has /\ m.name # <<>>
           /\ NeedsName(m0) => m.name = DeriveName(cfg.path.name)
           /\ ~NeedsName(m0) => m = m0
           /\ m.other = m0.other

\* C8: after one successful validation, a further validation of the same
\* manifest performs no write and leaves the file as it is.
C8_ValidationIdempotent ==
    [][(pc = "validated" /\ calls' = calls + 1)
          => (writes' = writes /\ game' = game)]_vars

\* C10: after a run that reports success the holding area and the scratch
\* directory are gone, unless their removal itself raised.
C10_SuccessLeavesNoTempDirs ==
    result.success =>
      /\ hold.exists => <<"restore", "rmtree">> \in faults
      /\ scratch.exists => <<"finish", "rmtree">> \in faults

\* C10 witness: a successful run that had downloaded the runtime and saved the
\* application files; both directories are gone
C10_Witness ==
    /\ result.success
    /\ nwjsDir = "scratch"
    /\ tempDir
    /\ ~hold.exists
    /\ ~scratch.exists

\* C11: a run that returns failure has released the holding area and the
\* scratch directory as a successful one has: each is gone when process_game
\* returns, unless its removal itself raised.
C11_FailureReleasesTempDirs ==
    (Returned /\ ~result.success) =>
      /\ hold.exists => <<"restore", "rmtree">> \in faults
      /\ scratch.exists => <<"finish", "rmtree">> \in faults

\* C12: when a runtime directory is supplied and exists, setup_nwjs returns
\* that path, downloads and extracts nothing and creates no scratch directory;
\* a download, an extraction or the scratch directory is seen only in runs in
\* which no runtime directory was supplied or the one supplied does not exist.
C12_SuppliedRuntimeIsUsed ==
    Started("setup") =>
      /\ cfg.nwjs = "exists" =>
           /\ nwjsDir = "supplied"
           /\ scratch = NoScratch
           /\ <<"setup", "download">> \notin faults
           /\ LastStep = "setup" => ~Returned
      /\ (nwjsDir = "scratch" \/ scratch # NoScratch
            \/ <<"setup", "download">> \in faults)
           => cfg.nwjs \in {"none", "missing"}

\* C12 witness: setup has returned the supplied directory; no scratch directory
C12_Witness ==
    /\ pc = "setup"
    /\ cfg.nwjs = "exists"
    /\ nwjsDir = "supplied"
    /\ ~scratch.exists

\* C12, the other case: the supplied directory does not exist, the runtime was
\* downloaded and extracted
C12_DownloadReached ==
    pc = "setup" /\ cfg.nwjs = "missing" /\ nwjsDir = "scratch" /\ scratch.dir

\* the documented tokens: five machine values and three platform values
DocArch ==
    [m \in {"AMD64", "x86_64", "arm64", "i386", "x86"} |->
        IF m \in {"AMD64", "x86_64"} THEN "x64"
        ELSE IF m = "arm64" THEN "arm64" ELSE "ia32"]
DocPlatform ==
    [p \in {"win32", "darwin", "linux"} |->
        IF p = "win32" THEN "win" ELSE IF p = "darwin" THEN "osx" ELSE "linux"]

\* the URL the documentation gives for the inputs c
DocUrl(c) ==
    LET a == IF c.machine \in DOMAIN DocArch THEN DocArch[c.machine] ELSE "x64"
        p == IF c.platform \in DOMAIN DocPlatform THEN DocPlatform[c.platform] ELSE "win"
        v == IF c.version # <<>> /\ Head(c.version) = "v"
             THEN c.version ELSE <<"v">> \o c.version
        suffix == IF p = "win" THEN ".zip" ELSE ".tar.gz"
        name == <<IF c.use_sdk THEN "nwjs-sdk-" ELSE "nwjs-">> \o v \o <<"-", p, "-", a, suffix>>
    IN  <<"https://dl.nwjs.io", "/">> \o v \o <<"/">> \o name

\* C13: every call of get_nwjs_download_url returns <base>/<version>/<filename>
\* as documented: the version with one leading 'v' put before it when it has
\* none, nwjs-sdk- or nwjs- by flavor, the platform and architecture tokens
\* with their defaults, .zip for win and .tar.gz otherwise; and all calls with
\* the same inputs return the same value.
C13_DownloadUrlAsDocumented ==
    \A i \in 1..Len(url) :
      /\ url[i].url = DocUrl(cfg)
      /\ url[i].url = <<nwjs_url_base, "/">> \o SubSeq(url[i].url, 3, Len(url[i].url) - Len(url[i].filename) - 1)
                        \o <<"/">> \o url[i].filename
      /\ url[i].url[3] = "v"
      /\ StartsWithV(cfg.version) => SubSeq(url[i].url, 3, 2 + Len(cfg.version)) = cfg.version
      /\ \A j \in 1..Len(url) : url[j] = url[i]

\* C13 witness: two calls for an unrecognized platform and architecture and a
\* version without 'v'
C13_Witness ==
    /\ Len(url) = 2
    /\ cfg.platform = "freebsd"
    /\ cfg.machine = "aarch64"
    /\ cfg.version = <<"0", ".", "4">>
    /\ url[1].filename = <<"nwjs-sdk-", "v", "0", ".", "4", "-", "win", "-", "x64", ".zip">>

\* C14: when no call raises, rename_executable renames the first candidate of
\* the platform's list that exists in the target to the user-chosen name, for
\* every executable name that is not a directory of the target: afterwards the
\* destination holds what that candidate held, the value returned is the
\* destination, and every other candidate is as it was (the destination
\* itself, when it is a candidate, is overwritten).
C14_RenamesFirstCandidate ==
    [][(pc = "restored" /\ pc' = "renamed" /\ faults' = faults) =>
         LET cands == possible_executables(cfg.platform)
             present == {i \in 1..Len(cands) : Exists(game[cands[i]])}
             dst == game_exe_name(cfg)
         IN  (present # {} /\ game[dst].k # "dir") =>
               LET first == cands[CHOOSE i \in present : \A j \in present : i <= j]
               IN  /\ game'[dst] = game[first]
                   /\ gameExe' = dst
                   /\ first # dst => ~Exists(game'[first])
                   /\ \A c \in Range(cands) \ {first, dst} : game'[c] = game[c]
      ]_vars

\* C15: a non-critical failure leaves the outcome of the run as it is without
\* the failure. A chmod that raises after the rename leaves the value of
\* rename_executable what it is when no call raises; an rmtree of the holding
\* area that raises leaves restore_important_files returning normally; a
\* removal that raises in cleanup_nwjs_files changes neither the executable
\* path nor the result. (The result is made from game_exe alone afterwards.)
C15_NonCriticalFailureKeepsOutcome ==
    [][ /\ (pc = "restored" /\ pc' = "renamed"
              /\ <<"rename", "chmod">> \in faults' \ faults)
            => gameExe' = rename_executable(cfg, game, "none").exe
        /\ (pc = "installed" /\ <<"restore", "rmtree">> \in faults' \ faults)
            => (pc' = "restored" /\ result' = result)
        /\ (pc = "renamed" /\ faults' # faults)
            => (pc' = "cleaned" /\ gameExe' = gameExe /\ result' = result)
      ]_vars

\* the steps of process_game in the order of lines 598-625
StepOrder ==
    <<"validate", "backup", "setup", "save", "wipe", "install", "restore",
      "rename", "cleanup">>
\* backup is a step of the run only when it is enabled
IsStepOfRun(step) == step # "backup" \/ cfg.createBackup
\* the library calls whose failure aborts the run: every one of the steps
\* validate to restore but the removals of the wipe and of the holding area
Aborts(f) ==
    \/ f[1] \in {"validate", "backup", "setup", "save", "install"}
    \/ f[1] = "restore" /\ f[2] # "rmtree"

\* C16: the steps of a run start in the order validate, backup (when enabled),
\* setup, save, wipe, install, restore, rename, cleanup, each at most once;
\* once a call of a step from validate to restore has raised, the run has
\* returned failure with that step the last one started, and a run that has
\* returned starts no further step; cleanup has started only after install
\* and restore, with no call of install having raised.
C16_StepsInOrder ==
    /\ [](LET steps == SelectSeq(StepOrder, IsStepOfRun) IN
            /\ Len(started) <= Len(steps)
            /\ started = SubSeq(steps, 1, Len(started)))
    /\ [](\A f \in faults :
            Aborts(f) => (Returned /\ ~result.success /\ LastStep = f[1]))
    /\ [][Returned => started' = started]_vars
    /\ [](Started("cleanup") =>
            (Started("install") /\ Started("restore")
             /\ \A f \in faults : f[1] # "install"))

\* C16 witness: a run with backup enabled has started all nine steps
C16_Witness ==
    pc = "cleaned" /\ cfg.createBackup /\ started = StepOrder

\* C16, the other case: install raised and main has exited; restore, rename
\* and cleanup were never started
C16_AbortReached ==
    /\ pc = "exited"
    /\ LastStep = "install"
    /\ \E f \in faults : f[1] = "install"

\* the children of the target directory in all: those the model follows by
\* name and, when the target is its own parent, the directories of Beside
AllChildren(g, h, b, sc) ==
    Cardinality(Children(g)) + (IF cfg.path.inside THEN Cardinality(Beside(h, b, sc)) ELSE 0)

\* C17: clean_game_directory returns normally whatever removal raises, and the
\* run goes on to the installer; every child whose removal did not raise is
\* gone, the one whose removal raised (one warning) is as it was, and
\* removed_count is the number of children that are gone.
C17_WipeSkipsUndeletableChild ==
    [][pc = "saved" =>
         LET stuck == {f[2] : f \in faults' \ faults} IN
         /\ pc' = "wiped"
         /\ result' = result
         /\ \A f \in faults' \ faults : f[1] = "wipe"
         /\ \A n \in TargetNames :
              game'[n] = (IF n \in stuck THEN game[n] ELSE None)
         /\ removed' = AllChildren(game, hold, backup, scratch)
                          - AllChildren(game', hold', backup', scratch')
         /\ removed' = AllChildren(game, hold, backup, scratch) - Cardinality(stuck)
      ]_vars

\* C17 witness: a target of two files and a directory that cannot be removed;
\* the wipe has removed 2, left the directory, and the run continues
C17_Witness ==
    /\ pc = "wiped"
    /\ ~cfg.path.inside
    /\ Children(game0) = {"package.json", "old.dll", "www"}
    /\ Children(game) = {"www"}
    /\ faults = {<<"wipe", "www">>}
    /\ removed = 2

\* C18: when copy_nwjs_to_game starts (process_game is past the wipe), the
\* target directory has no child: nothing that was there before the wipe is
\* still there.
C18_InstallerStartsOnEmptyTarget ==
    pc = "wiped" => Children(game) = {}

\* C19: when restore_important_files returns normally the target holds a file
\* index.html: the one of the holding area when it holds one; else a copy of
\* www/index.html when the target's www has one; else the synthesized
\* document, which is written in that last case only.
C19_IndexFallbackChain ==
    [][(pc = "installed" /\ pc' = "restored") =>
         LET idx == game'["index.html"]
             held == hold.t["index.html"]
             nested == "index.html" \in Entries(game'["www"])
         IN  /\ idx.k = "file"
             /\ Exists(held) => idx = held
             /\ (~Exists(held) /\ nested) => Holds(idx) = "wwwidx"
             /\ (~Exists(held) /\ ~nested) => Holds(idx) = "synth"
             /\ Holds(idx) = "synth" => (~Exists(held) /\ ~nested)
      ]_vars

\* C19 witness: neither the holding area nor www had an index.html, though the
\* runtime brought one; the target holds the synthesized document
C19_Witness ==
    /\ pc = "restored"
    /\ ~cfg.path.inside
    /\ ~Exists(game0["index.html"])
    /\ Exists(payload["index.html"])
    /\ game["www"] = Dir({"data"})
    /\ game["index.html"] = File("synth")

\* C19, the second link of the chain: no index.html in the holding area, one
\* in the restored www
C19_FromAssetsReached ==
    /\ pc = "restored"
    /\ ~Exists(game0["index.html"])
    /\ game["www"] = Dir({"data", "index.html"})
    /\ game["index.html"] = File("wwwidx")

\* C19, the first link: the index.html of the holding area is back
C19_FromHoldingAreaReached ==
    /\ pc = "restored"
    /\ game["www"] = Dir({"data", "index.html"})
    /\ game["index.html"] = File("app")

\* the known files in the documented order: the five library files under
\* js/libs, the six core files, plugins.js and main.js under js
DocOrder ==
    <<<<"js/libs/", "pixi.js">>, <<"js/libs/", "pixi-tilemap.js">>,
      <<"js/libs/", "pixi-picture.js">>, <<"js/libs/", "fpsmeter.js">>,
      <<"js/libs/", "lz-string.js">>,
      <<"js/", "rpg_core.js">>, <<"js/", "rpg_managers.js">>,
      <<"js/", "rpg_objects.js">>, <<"js/", "rpg_scenes.js">>,
      <<"js/", "rpg_sprites.js">>, <<"js/", "rpg_windows.js">>,
      <<"js/", "plugins.js">>, <<"js/", "main.js">>>>
\* the known files that are present under the www/js directory js
KnownPresent(js) ==
    {t \in Range(DocOrder) :
        /\ js.exists
        /\ IF t[1] = "js/libs/" THEN js.libs.exists /\ t[2] \in js.libs.files
                                ELSE t[2] \in js.files}
RankOf(t) == CHOOSE i \in 1..Len(DocOrder) : DocOrder[i] = t

\* C20: the synthesized document holds one script tag for each known file
\* present under www/js and no other, in the documented order; when no known
\* file is present it holds the single tag of js/main.js.
C20_ScriptTagsAsDocumented ==
    \A k \in 1..Len(tags) :
      LET t == tags[k]
          known == KnownPresent(cfg)
      IN  /\ Len(t) = Cardinality(Range(t))
          /\ known # {} =>
               /\ Range(t) = known
               /\ \A i, j \in 1..Len(t) : i < j => RankOf(t[i]) < RankOf(t[j])
          /\ known = {} => t = <<<<"js/", "main.js">>>>

\* C20 witness: www/js holds main.js, plugins.js and a file that is not known,
\* and no libs; two tags, plugins.js then main.js
C20_Witness ==
    /\ cfg.exists
    /\ cfg.files = {"main.js", "plugins.js", "custom.js"}
    /\ ~cfg.libs.exists
    /\ tags = <<<<<<"js/", "plugins.js">>, <<"js/", "main.js">>>>>>

\* C20, the fallback: www/js holds no known file; the single tag of js/main.js
C20_FallbackReached ==
    /\ cfg.exists
    /\ cfg.files = {"custom.js", "pixi.js"}
    /\ cfg.libs.files = {"extra.js"}
    /\ tags = <<<<<<"js/", "main.js">>>>>>

\* the name holds the letters n, w, j, s in a row, each in either case
NamesRuntime(name) ==
    \E i \in 1..(Len(name) - 3) :
        /\ name[i] \in {"n", "N"}
        /\ name[i + 1] \in {"w", "W"}
        /\ name[i + 2] \in {"j", "J"}
        /\ name[i + 3] \in {"s", "S"}
RuntimeDirs(kids) == {k \in kids : k.kind = "dir" /\ NamesRuntime(k.name)}

\* C21: extract_nwjs returns a child of the destination that is a directory
\* and whose name contains 'nwjs' in any case, and fails with 'Could not find
\* extracted NW.js directory' when there is none, as when the extension is
\* neither .zip nor .gz and nothing was unpacked; and a run in which it failed
\* has returned with setup its last step, nothing saved and nothing wiped.
C21_ExtractFindsRuntimeDir ==
    /\ pc = "start" =>
         \A suffix \in {".zip", ".gz", ".7z"} : \A layout \in Layouts :
         \A existing \in SUBSET {ArchiveFile, StaleDir} :
           LET x == extract_nwjs(suffix, layout, existing)
               kids == existing \cup (IF suffix = ".7z" THEN {} ELSE layout)
           IN  /\ x.found = RuntimeDirs(kids)
               /\ x.err = (IF RuntimeDirs(kids) = {} THEN ErrNoRuntimeDir ELSE Ok)
    /\ (Started("setup") /\ cfg.nwjs # "exists" /\ <<"setup", "download">> \notin faults) =>
         /\ RuntimeDirs(unpacked) = {} =>
              /\ Returned /\ result.error = ErrNoRuntimeDir
              /\ LastStep = "setup"
              /\ hold = NoHold
              /\ Children(game) = Children(game0)
         /\ RuntimeDirs(unpacked) # {} =>
              /\ nwjsDir = "scratch"
              /\ result.error # ErrNoRuntimeDir

\* C21 witness: the archive unpacked to a directory of another name; the run
\* has returned the extraction error before anything was saved or wiped
C21_Witness ==
    /\ Returned
    /\ result.error = ErrNoRuntimeDir
    /\ unpacked = {Entry(<<"n", "w", "1">>, "dir")}
    /\ ~Started("save")

\* C21, the other case: the directory named in mixed case was returned
C21_FoundReached ==
    /\ pc = "setup"
    /\ nwjsDir = "scratch"
    /\ Entry(<<"x", "N", "W", "j", "s", "1">>, "dir") \in unpacked

\* C22: cleanup_nwjs_files returns normally; afterwards every cleanup-set path
\* but those whose removal raised is absent from the target root, whichever
\* removal raised; and every child of the target outside the cleanup-set is
\* as it was, locales being still a directory if it was one.
C22_CleanupSetRemoved ==
    [][pc = "renamed" =>
         LET failed == {f[2] : f \in faults' \ faults} IN
         /\ pc' = "cleaned"
         /\ \A n \in cleanup_files \ failed : ~Exists(game'[n])
         /\ \A n \in TargetNames \ (cleanup_files \cup {"locales"}) : game'[n] = game[n]
         /\ game'["locales"].k = game["locales"].k
         /\ Entries(game'["locales"]) \subseteq Entries(game["locales"])
      ]_vars

\* C22 witness: the removal of chromedriver raised; debug.log, the next entry
\* of the list, is gone all the same
C22_Witness ==
    /\ pc = "cleaned"
    /\ faults = {<<"cleanup", "chromedriver">>}
    /\ Exists(game["chromedriver"])
    /\ Exists(payload["debug.log"])
    /\ ~Exists(game["debug.log"])

\* C23: after cleanup_nwjs_files the locales directory of the target holds no
\* locale file beside en-US.pak and en-US.pak.info, but for a file whose own
\* removal raised.
C23_OnlyDefaultLocaleLeft ==
    pc = "cleaned" =>
      Entries(game["locales"]) \ kept_locales
          \subseteq {f[2] : f \in {x \in faults : x[1] = "cleanup"}}

\* the node is a complete copy of the manifest the run started on, but for a
\* repaired name field
ManifestCopy(n) ==
    /\ n.k = "file"
    /\ "m" \in DOMAIN n
    /\ n.m \in Repaired(ManifestOf(game0["package.json"]), cfg.path.name)

\* C24: in every state of a run that has passed validation, the target or the
\* holding area holds a complete copy of the manifest, and the target or the
\* holding area holds the www directory as it was at the start (stated of the
\* runs in which no library call raises).
C24_NoLoss ==
    (Started("validate") /\ ~FailedIn({"validate"}) /\ faults = {}) =>
      /\ ManifestCopy(game["package.json"]) \/ ManifestCopy(hold.t["package.json"])
      /\ game["www"] = game0["www"] \/ hold.t["www"] = game0["www"]

\* C25: clean_game_directory removes none of the directories the run keeps
\* beside the target: once the wipe has run, the holding area is there until
\* the restorer removes it, the backup that was taken is there, and so is the
\* runtime directory the installer is to read.
C25_WipeSparesRunDirectories ==
    (Started("wipe") /\ faults = {}) =>
      /\ ~Started("restore") => hold.exists
      /\ BackupTaken => backup.exists
      /\ ~Started("install") => RuntimeExists

\* C26: what restore_important_files has put back is what the target held
\* when the run started: index.html is not one the target did not have, www
\* has no entry it did not have, and the manifest is the starting one, but for
\* a repaired name (stated of the runs in which no library call raises).
C26_RestoresOnlyWhatWasSaved ==
    (pc = "restored" /\ faults = {}) =>
      /\ ~Exists(game0["index.html"]) => Holds(game["index.html"]) # "stale"
      /\ Entries(game["www"]) \subseteq Entries(game0["www"])
      /\ AsAtStart("package.json")

\* C27: the runtime directory setup_nwjs has returned from the scratch
\* directory is the one unpacked from the archive downloaded in this run.
C27_InstallsWhatWasDownloaded ==
    (Started("setup") /\ nwjsDir \notin {"none", "supplied"}) =>
      (nwjsDir = "scratch" /\ RuntimeDirs(unpacked) # {})

=============================================================================
